---- MODULE Spec2Model ----
(***************************************************************************)
(* Model of Backend/fastapi_app.py: the PDF question-answering backend.    *)
(*                                                                         *)
(* State: the SQLite table pdf_metadata, the two storage roots uploads/    *)
(* and embeddings/, the three process-wide maps documents,                 *)
(* merged_vector_stores and multi_chat_histories, the FAISS objects those  *)
(* maps refer to (a heap, because merge_from mutates its receiver), the    *)
(* background ingestion tasks and the /query/ request that occupies the    *)
(* event loop.                                                             *)
(*                                                                         *)
(* Scheduling: every endpoint is an `async def` that never awaits, so a    *)
(* handler runs on the event loop from its first line to its return        *)
(* without another handler in between.  process_pdf is a plain function    *)
(* added to BackgroundTasks, so it runs on a worker thread after the       *)
(* response and interleaves with the handlers.                             *)
(***************************************************************************)
EXTENDS Integers, Sequences, FiniteSets, TLC

\* ---------------------------------------------------------------- bounds
MaxDocs    == 2   \* document ids the uuid generator hands out: 1..MaxDocs
MaxFiles   == 2   \* files in one POST /upload/
MaxPages   == 1   \* chunks a document's text splits into: 1..MaxPages
MaxReqLen  == 2   \* length of a request's document_ids list
MaxTurns   == 2   \* conversation turns kept over all session keys
MaxSessionDocs == 3  \* ingested documents the sessions are drawn from

\* --------------------------------------------------------------- domains
DocIds    == 1..MaxDocs
Extensions == {".pdf", ".PDF", ".txt"}
Questions == {"q1", "q2"}
Answers   == {"a1"}

VARIABLES
    nextId,                \* uuid.uuid4(): the next id not yet handed out
    pdf_metadata,          \* rows of the table, by document_id
    uploads,               \* uploads/<id>/: id -> the stored file
    embeddings,            \* embeddings/<id>/: id -> the persisted index
    documents,             \* id -> [vector_store, chat_history]
    merged_vector_stores,  \* session key -> FAISS object
    multi_chat_histories,  \* session key -> sequence of <<question, answer>>
    heap,                  \* FAISS object -> its chunks, in index order
    tasks,                 \* id -> the background task process_pdf(id)
    query,                 \* the /query/ request being, or last, handled
    resp,                  \* the last response of the other endpoints
    deleted,               \* ids for which DELETE /documents/{id} returned
    turns                  \* session key -> the <<question, answer>> of the
                           \* queries answered for it so far, in arrival order

vars == <<nextId, pdf_metadata, uploads, embeddings, documents,
          merged_vector_stores, multi_chat_histories, heap, tasks, query,
          resp, deleted, turns>>

\* --------------------------------------------------------------- helpers
Range(s) == {s[i] : i \in 1..Len(s)}

SeqsUpTo(S, n) == UNION {[1..k -> S] : k \in 0..n}

Min(S) == CHOOSE x \in S : \A y \in S : x <= y

Put(f, k, v) == [x \in (DOMAIN f) \cup {k} |-> IF x = k THEN v ELSE f[x]]

Drop(f, k) == [x \in (DOMAIN f) \ {k} |-> f[x]]

Restrict(f, S) == [x \in (DOMAIN f) \cap S |-> f[x]]

\* ------------------------------------------------- FAISS objects (heap)
\* A FAISS object is named by the call that made it: FAISS.from_texts in
\* create_vector_store ("built"), FAISS.load_local in load_vector_store
\* ("loaded") or FAISS.load_local in query_document for a session key
\* ("fresh").  At most one live object carries a given name.
NoKey == <<>>

Ref(kind, key, doc) == [kind |-> kind, key |-> key, doc |-> doc]

\* No object (None).
NoRef == Ref("none", NoKey, 0)

\* RecursiveCharacterTextSplitter(...).split_text and FAISS.from_texts:
\* the chunks of document d's text, in text order.
Chunks(d, pages) == [i \in 1..pages |-> <<d, i>>]

\* Variant: the other index's chunks are put before the receiver's own.
merge_from_front(h, base, other) == [h EXCEPT ![base] = h[other] \o h[base]]

\* FAISS.merge_from: the receiver absorbs the other index's chunks after
\* its own; the other index is left as it was.
merge_from(h, base, other) == [h EXCEPT ![base] = h[base] \o h[other]]

\* ---------------------------------------------------------- session key
\* sorted(...): ascending order of a finite set of ids.
RECURSIVE sorted(_)
sorted(S) == IF S = {} THEN <<>>
             ELSE <<Min(S)>> \o sorted(S \ {Min(S)})

\* set(request.document_ids)
set(ids) == Range(ids)

\* Variant: the ids deduplicated in request order, not sorted.
SessionKeyUnsorted(ids) ==
    LET RECURSIVE firsts(_, _)
        firsts(i, seen) ==
            IF i > Len(ids) THEN <<>>
            ELSE IF ids[i] \in seen THEN firsts(i + 1, seen)
            ELSE <<ids[i]>> \o firsts(i + 1, seen \cup {ids[i]})
    IN firsts(1, {})

\* tuple(sorted(set(request.document_ids)))
SessionKey(ids) == sorted(set(ids))

Requests == SeqsUpTo(DocIds, MaxReqLen)

\* ------------------------------------------------------- Document Store
Entry(vs) == [vector_store |-> vs, chat_history |-> <<>>]

\* Variant: no check that embeddings/<id> exists; an absent index loads as
\* an empty one.
load_vector_store_unchecked(docs, h, d) ==
    IF d \in DOMAIN docs
    THEN [status |-> 200, vs |-> docs[d].vector_store, documents |-> docs, heap |-> h]
    ELSE LET vs == Ref("loaded", NoKey, d)
         IN [status |-> 200, vs |-> vs,
             documents |-> Put(docs, d, Entry(vs)),
             heap |-> Put(h, vs, IF d \in DOMAIN embeddings
                                 THEN embeddings[d] ELSE <<>>)]

\* Variant: the index loaded from disk is returned without being stored in
\* `documents`.
load_vector_store_unmemoized(docs, h, d) ==
    IF d \in DOMAIN docs
    THEN [status |-> 200, vs |-> docs[d].vector_store, documents |-> docs, heap |-> h]
    ELSE IF d \notin DOMAIN embeddings
    THEN [status |-> 404, vs |-> NoRef, documents |-> docs, heap |-> h]
    ELSE LET vs == Ref("loaded", NoKey, d)
         IN [status |-> 200, vs |-> vs, documents |-> docs,
             heap |-> Put(h, vs, embeddings[d])]

\* load_vector_store(document_id): memory first, then disk; a disk load is
\* stored in `documents`.  Result: status 200 with the object, or 404.
load_vector_store(docs, h, d) ==
    IF d \in DOMAIN docs
    THEN [status |-> 200, vs |-> docs[d].vector_store, documents |-> docs, heap |-> h]
    ELSE IF d \notin DOMAIN embeddings
    THEN [status |-> 404, vs |-> NoRef, documents |-> docs, heap |-> h]
    ELSE LET vs == Ref("loaded", NoKey, d)
         IN [status |-> 200, vs |-> vs,
             documents |-> Put(docs, d, Entry(vs)),
             heap |-> Put(h, vs, embeddings[d])]

\* --------------------------------------------------- Session Index Cache
\* Variant: the member is taken from load_vector_store, so a resident
\* document's own object is the one that gets merged into.
load_local_live(docs, h, key, d) ==
    LET one == load_vector_store(docs, h, d)
    IN IF one.status = 200 /\ d \in DOMAIN docs
       THEN [ok |-> TRUE, vs |-> one.vs, heap |-> h]
       ELSE IF d \notin DOMAIN embeddings
       THEN [ok |-> FALSE, vs |-> NoRef, heap |-> h]
       ELSE [ok |-> TRUE, vs |-> Ref("fresh", key, d),
             heap |-> Put(h, Ref("fresh", key, d), embeddings[d])]

\* FAISS.load_local(f"embeddings/{doc_id}", ...) in query_document: a new
\* object holding the persisted chunks; raises when the directory is
\* missing (ok = FALSE).
load_local(docs, h, key, d) ==
    IF d \notin DOMAIN embeddings
    THEN [ok |-> FALSE, vs |-> NoRef, heap |-> h]
    ELSE LET vs == Ref("fresh", key, d)
         IN [ok |-> TRUE, vs |-> vs, heap |-> Put(h, vs, embeddings[d])]

\* The list comprehension of query_document: the members are loaded in
\* key order; the first failing load ends it with an exception.
RECURSIVE LoadMembers(_, _, _, _)
LoadMembers(docs, h, key, i) ==
    IF i > Len(key) THEN [ok |-> TRUE, stores |-> <<>>, heap |-> h]
    ELSE LET one == load_local(docs, h, key, key[i])
         IN IF ~one.ok THEN [ok |-> FALSE, stores |-> <<>>, heap |-> h]
            ELSE LET rest == LoadMembers(docs, one.heap, key, i + 1)
                 IN [ok |-> rest.ok,
                     stores |-> <<one.vs>> \o rest.stores,
                     heap |-> rest.heap]

\* for other_vs in vector_stores[1:]: base_vs.merge_from(other_vs)
RECURSIVE MergeInto(_, _, _)
MergeInto(h, stores, i) ==
    IF i > Len(stores) THEN h
    ELSE MergeInto(merge_from(h, stores[1], stores[i]), stores, i + 1)

\* The multi-document branch of query_document for a key that is not
\* cached.  An empty key makes vector_stores[0] raise IndexError; a failed
\* load_local raises too: both leave the handler as an unhandled
\* exception, which FastAPI answers with status 500.
MergeMiss(docs, mvs, h, key) ==
    LET loaded == LoadMembers(docs, h, key, 1)
    IN IF ~loaded.ok \/ loaded.stores = <<>>
       THEN [status |-> 500, vs |-> NoRef, documents |-> docs,
             merged |-> mvs, heap |-> h]
       ELSE LET base_vs == loaded.stores[1]
            IN [status |-> 200, vs |-> base_vs, documents |-> docs,
                merged |-> Put(mvs, key, base_vs),
                heap |-> MergeInto(loaded.heap, loaded.stores, 2)]

\* Variant: no single-document branch, every key goes through the cache.
NeverSingle(key) == FALSE

\* Whether query_document takes the single-document branch.
IsSingle(key) == Len(key) = 1

\* Lines 234-252 of query_document: the index a session key is served from.
resolve(docs, mvs, h, key) ==
    IF IsSingle(key)
    THEN LET one == load_vector_store(docs, h, key[1])
         IN [status |-> one.status, vs |-> one.vs, documents |-> one.documents,
             merged |-> mvs, heap |-> one.heap]
    ELSE IF key \in DOMAIN mvs
    THEN [status |-> 200, vs |-> mvs[key], documents |-> docs,
          merged |-> mvs, heap |-> h]
    ELSE MergeMiss(docs, mvs, h, key)

\* multi_chat_histories.get(chat_key, [])
HistoryOf(hist, key) == IF key \in DOMAIN hist THEN hist[key] ELSE <<>>

\* Reference counting: an object no map, task or request refers to is gone.
Roots(docs, mvs, tk, q) ==
    {docs[d].vector_store : d \in DOMAIN docs}
    \cup {mvs[k] : k \in DOMAIN mvs}
    \cup {tk[d].vs : d \in DOMAIN tk}
    \cup {q.vs}

Collect(h, docs, mvs, tk, q) == Restrict(h, Roots(docs, mvs, tk, q))

RECURSIVE SumLen(_, _)
SumLen(hist, keys) ==
    IF keys = {} THEN 0
    ELSE LET k == CHOOSE k \in keys : TRUE
         IN Len(hist[k]) + SumLen(hist, keys \ {k})

TotalTurns == SumLen(turns, DOMAIN turns)

\* -------------------------------------------------------------- requests
\* `again` tells a response from the equal response to the same request
\* right before it.
Idle == [pc |-> "idle", ids |-> <<>>, key |-> NoKey, vs |-> NoRef,
         chat_history |-> <<>>, question |-> "", status |-> 0, again |-> 0]

NoResp == [op |-> "none", status |-> 0, ids |-> {}]

\* The event loop is held by a handler that has not returned: the only
\* handler that takes more than one step is query_document, inside the
\* blocking qa_chain.invoke.
LoopBusy == query.pc = "invoking"

Init ==
    /\ nextId = 1
    /\ pdf_metadata = {}
    /\ uploads = <<>>
    /\ embeddings = <<>>
    /\ documents = <<>>
    /\ merged_vector_stores = <<>>
    /\ multi_chat_histories = <<>>
    /\ heap = <<>>
    /\ tasks = <<>>
    /\ query = Idle
    /\ resp = NoResp
    /\ deleted = {}
    /\ turns = <<>>

\* ---------------------------------------------------------- POST /upload/
Files == [ext : Extensions, pages : 1..MaxPages]

\* files: List[UploadFile] = File(...): one file or more
UploadRequests == SeqsUpTo(Files, MaxFiles) \ {<<>>}

\* str.lower() on the file name's extension
lower(ext) == IF ext = ".PDF" THEN ".pdf" ELSE ext

\* file.filename.lower().endswith('.pdf')
IsPdf(file) == lower(file.ext) = ".pdf"

\* How many files the loop of upload_pdf stores before it returns or raises.
RECURSIVE Accepted(_, _)
Accepted(files, i) ==
    IF i > Len(files) \/ ~IsPdf(files[i]) THEN 0
    ELSE 1 + Accepted(files, i + 1)

\* Variant: process_pdf is called inside the handler and the response
\* waits for it (no BackgroundTasks).
NewTaskInline(d, first) ==
    [pc |-> "running", text |-> 0, vs |-> NoRef,
     after |-> IF d = first THEN {} ELSE {d - 1}]

\* BackgroundTasks runs the tasks of one request one after the other: a
\* task starts when the one added before it (`after`) has returned.
NewTask(d, first) ==
    [pc |-> "queued", text |-> 0, vs |-> NoRef,
     after |-> IF d = first THEN {} ELSE {d - 1}]

upload_pdf(files) ==
    LET n      == Accepted(files, 1)
        new    == nextId .. (nextId + n - 1)
        raised == n < Len(files)
    IN /\ ~LoopBusy
       /\ nextId + n - 1 <= MaxDocs
       /\ nextId' = nextId + n
       /\ uploads' = [d \in (DOMAIN uploads) \cup new |->
                        IF d \in new THEN files[d - nextId + 1].pages
                        ELSE uploads[d]]
       /\ pdf_metadata' = pdf_metadata \cup new
       \* The HTTPException skips the return, and with it the tasks added
       \* so far: FastAPI runs background tasks only after a response the
       \* handler returned.
       /\ tasks' = IF raised THEN tasks
                   ELSE [d \in (DOMAIN tasks) \cup new |->
                            IF d \in new THEN NewTask(d, nextId) ELSE tasks[d]]
       /\ resp' = IF raised THEN [op |-> "upload", status |-> 400, ids |-> {}]
                  ELSE [op |-> "upload", status |-> 200, ids |-> new]
       /\ UNCHANGED <<embeddings, documents, merged_vector_stores,
                      multi_chat_histories, heap, query, deleted, turns>>

\* -------------------------------------------------------- GET /documents/
list_documents ==
    /\ ~LoopBusy
    /\ resp' = [op |-> "list", status |-> 200, ids |-> pdf_metadata]
    /\ UNCHANGED <<nextId, pdf_metadata, uploads, embeddings, documents,
                   merged_vector_stores, multi_chat_histories, heap, tasks,
                   query, deleted, turns>>

\* ---------------------------------------------- DELETE /documents/{id}
\* The ids a client can name: those an upload has handed out.
Nameable == 1 .. (nextId - 1)

\* Variant: the delete also drops the entry of `documents` and every
\* cached session the document is a member of.
delete_document_evict(d) ==
    /\ ~LoopBusy
    /\ d \in Nameable
    /\ pdf_metadata' = pdf_metadata \ {d}
    /\ uploads' = Drop(uploads, d)
    /\ embeddings' = Drop(embeddings, d)
    /\ documents' = Drop(documents, d)
    /\ merged_vector_stores' =
          Restrict(merged_vector_stores,
                   {k \in DOMAIN merged_vector_stores : d \notin Range(k)})
    /\ heap' = Collect(heap, documents', merged_vector_stores', tasks, query)
    /\ resp' = [op |-> "delete", status |-> 200, ids |-> {d}]
    /\ deleted' = deleted \cup {d}
    /\ UNCHANGED <<nextId, multi_chat_histories, tasks, query, turns>>

\* Variant: an id without a row in pdf_metadata is answered 404.
delete_document_strict(d) ==
    /\ ~LoopBusy
    /\ d \in Nameable
    /\ pdf_metadata' = pdf_metadata \ {d}
    /\ uploads' = Drop(uploads, d)
    /\ embeddings' = Drop(embeddings, d)
    /\ resp' = [op |-> "delete",
                status |-> IF d \in pdf_metadata THEN 200 ELSE 404,
                ids |-> {d}]
    /\ deleted' = deleted \cup {d}
    /\ UNCHANGED <<nextId, documents, merged_vector_stores,
                   multi_chat_histories, heap, tasks, query, turns>>

delete_document(d) ==
    /\ ~LoopBusy
    /\ d \in Nameable
    /\ pdf_metadata' = pdf_metadata \ {d}
    /\ uploads' = Drop(uploads, d)
    /\ embeddings' = Drop(embeddings, d)
    /\ resp' = [op |-> "delete", status |-> 200, ids |-> {d}]
    /\ deleted' = deleted \cup {d}
    /\ UNCHANGED <<nextId, documents, merged_vector_stores,
                   multi_chat_histories, heap, tasks, query, turns>>

\* ----------------------------------------------------------- POST /query/
\* query_document up to the call of qa_chain.invoke.  The worker thread of
\* process_pdf can run between any two lines of it, but what that thread
\* writes (embeddings/<id>, documents[id]) holds the same chunks whichever
\* side writes last, so every outcome of the interleaving is the outcome of
\* taking these lines in one step before or after the thread's step.
QueryStart(ids, q) ==
    /\ ~LoopBusy
    /\ \A i \in 1..Len(ids) : ids[i] \in Nameable
    /\ TotalTurns < MaxTurns
    /\ \E r \in {resolve(documents, merged_vector_stores, heap, SessionKey(ids))} :
       \E out \in {IF r.status = 200
                    THEN [pc |-> "invoking", ids |-> ids,
                          key |-> SessionKey(ids), vs |-> r.vs,
                          chat_history |->
                             HistoryOf(multi_chat_histories, SessionKey(ids)),
                          question |-> q, status |-> 0, again |-> 0]
                    ELSE [Idle EXCEPT !.pc = "failed", !.ids = ids,
                                      !.key = SessionKey(ids),
                                      !.status = r.status]} :
       \E nq \in {IF out = [query EXCEPT !.again = 0]
                   THEN [out EXCEPT !.again = 1 - query.again]
                   ELSE out} :
          /\ query' = nq
          /\ documents' = r.documents
          /\ merged_vector_stores' = r.merged
          /\ heap' = Collect(r.heap, r.documents, r.merged, tasks, nq)
    /\ UNCHANGED <<nextId, pdf_metadata, uploads, embeddings,
                   multi_chat_histories, tasks, resp, deleted, turns>>

\* Variant: the append alone, without the assignment that stores the list:
\* a list that .get made for a key with no entry is lost.
RecordTurnInPlace(hist, key, chat_history, turn) ==
    IF key \in DOMAIN hist THEN Put(hist, key, Append(chat_history, turn))
    ELSE hist

\* chat_history.append((request.query, answer));
\* multi_chat_histories[chat_key] = chat_history
RecordTurn(hist, key, chat_history, turn) ==
    Put(hist, key, Append(chat_history, turn))

\* qa_chain.invoke returns an answer: the turn is recorded and the handler
\* returns.
QueryFinish(answer) ==
    LET nq == [Idle EXCEPT !.pc = "done", !.ids = query.ids,
                           !.key = query.key, !.status = 200]
    IN /\ query.pc = "invoking"
       /\ multi_chat_histories' =
              RecordTurn(multi_chat_histories, query.key, query.chat_history,
                      <<query.question, answer>>)
       /\ turns' = Put(turns, query.key,
                       Append(HistoryOf(turns, query.key),
                              <<query.question, answer>>))
       /\ query' = nq
       /\ heap' = Collect(heap, documents, merged_vector_stores, tasks, nq)
       /\ UNCHANGED <<nextId, pdf_metadata, uploads, embeddings, documents,
                      merged_vector_stores, tasks, resp, deleted>>

\* Variant: the failure of the completion call is recorded as a turn.
QueryUpstreamErrorRecorded ==
    LET nq == [Idle EXCEPT !.pc = "failed", !.ids = query.ids,
                           !.key = query.key, !.status = 500]
    IN /\ query.pc = "invoking"
       /\ query' = nq
       /\ multi_chat_histories' =
              RecordTurn(multi_chat_histories, query.key, query.chat_history,
                         <<query.question, "error">>)
       /\ heap' = Collect(heap, documents, merged_vector_stores, tasks, nq)
       /\ UNCHANGED <<nextId, pdf_metadata, uploads, embeddings, documents,
                      merged_vector_stores, tasks, resp, deleted, turns>>

\* qa_chain.invoke raises (the completion model fails or times out).
QueryUpstreamError ==
    LET nq == [Idle EXCEPT !.pc = "failed", !.ids = query.ids,
                           !.key = query.key, !.status = 500]
    IN /\ query.pc = "invoking"
       /\ query' = nq
       /\ heap' = Collect(heap, documents, merged_vector_stores, tasks, nq)
       /\ UNCHANGED <<nextId, pdf_metadata, uploads, embeddings, documents,
                      merged_vector_stores, multi_chat_histories, tasks, resp,
                      deleted, turns>>

\* ------------------------------------------- background task process_pdf
Pc(d) == IF d \in DOMAIN tasks THEN tasks[d].pc ELSE "none"

\* The request's coroutine hands process_pdf to a worker thread: a step of
\* the event loop, taken once the task added before it has returned.
TaskStart(d) ==
    /\ ~LoopBusy
    /\ Pc(d) = "queued"
    /\ \A before \in tasks[d].after : Pc(before) = "done"
    /\ tasks' = [tasks EXCEPT ![d].pc = "running"]
    /\ UNCHANGED <<nextId, pdf_metadata, uploads, embeddings, documents,
                   merged_vector_stores, multi_chat_histories, heap, query,
                   resp, deleted, turns>>

\* text = extract_text(file_path)
TaskExtract(d) ==
    /\ Pc(d) = "running"
    /\ d \in DOMAIN uploads
    /\ tasks' = [tasks EXCEPT ![d].pc = "extracted", ![d].text = uploads[d]]
    /\ UNCHANGED <<nextId, pdf_metadata, uploads, embeddings, documents,
                   merged_vector_stores, multi_chat_histories, heap, query,
                   resp, deleted, turns>>

\* Variant: a failed extraction puts the task back in the queue.
TaskExtractRetry(d) ==
    /\ Pc(d) = "running"
    /\ tasks' = [tasks EXCEPT ![d].pc = "queued"]
    /\ UNCHANGED <<nextId, pdf_metadata, uploads, embeddings, documents,
                   merged_vector_stores, multi_chat_histories, heap, query,
                   resp, deleted, turns>>

\* extract_text raises: the file is gone, or the extractor fails on it.
\* The exception ends the task, and the tasks queued behind it never start.
TaskExtractFail(d) ==
    /\ Pc(d) = "running"
    /\ tasks' = [tasks EXCEPT ![d].pc = "failed"]
    /\ UNCHANGED <<nextId, pdf_metadata, uploads, embeddings, documents,
                   merged_vector_stores, multi_chat_histories, heap, query,
                   resp, deleted, turns>>

\* vs = create_vector_store(text, document_id): the index is built and
\* saved under embeddings/<id> (save_local creates the directory).
TaskCreate(d) ==
    LET vs == Ref("built", NoKey, d)
    IN /\ Pc(d) = "extracted"
       /\ embeddings' = Put(embeddings, d, Chunks(d, tasks[d].text))
       /\ heap' = Put(heap, vs, Chunks(d, tasks[d].text))
       /\ tasks' = [tasks EXCEPT ![d].pc = "saved", ![d].vs = vs]
       /\ UNCHANGED <<nextId, pdf_metadata, uploads, documents,
                      merged_vector_stores, multi_chat_histories, query, resp,
                      deleted, turns>>

\* create_vector_store raises (the embedding model fails).
TaskCreateFail(d) ==
    /\ Pc(d) = "extracted"
    /\ tasks' = [tasks EXCEPT ![d].pc = "failed"]
    /\ UNCHANGED <<nextId, pdf_metadata, uploads, embeddings, documents,
                   merged_vector_stores, multi_chat_histories, heap, query,
                   resp, deleted, turns>>

\* documents[document_id] = {"vector_store": vs, "chat_history": []}
TaskAttach(d) ==
    LET nd == Put(documents, d, Entry(tasks[d].vs))
        nt == [tasks EXCEPT ![d].pc = "done", ![d].vs = NoRef, ![d].text = 0]
    IN /\ Pc(d) = "saved"
       /\ documents' = nd
       /\ tasks' = nt
       /\ heap' = Collect(heap, nd, merged_vector_stores, nt, query)
       /\ UNCHANGED <<nextId, pdf_metadata, uploads, embeddings,
                      merged_vector_stores, multi_chat_histories, query, resp,
                      deleted, turns>>

\* ---------------------------------------------------------------- process
\* The process stops and starts again: lines 87-89 run anew, the tasks and
\* the request in flight are lost, the table and the two directories stay.
Restart ==
    /\ documents' = <<>>
    /\ merged_vector_stores' = <<>>
    /\ multi_chat_histories' = <<>>
    /\ heap' = <<>>
    /\ tasks' = <<>>
    /\ query' = Idle
    /\ resp' = NoResp
    /\ turns' = <<>>
    /\ UNCHANGED <<nextId, pdf_metadata, uploads, embeddings, deleted>>

Next ==
    \/ \E files \in UploadRequests : upload_pdf(files)
    \/ list_documents
    \/ \E d \in DocIds : delete_document(d)
    \/ \E ids \in Requests, q \in Questions : QueryStart(ids, q)
    \/ \E a \in Answers : QueryFinish(a)
    \/ QueryUpstreamError
    \/ \E d \in DocIds : TaskStart(d)
    \/ \E d \in DocIds : TaskExtract(d)
    \/ \E d \in DocIds : TaskExtractFail(d)
    \/ \E d \in DocIds : TaskCreate(d)
    \/ \E d \in DocIds : TaskCreateFail(d)
    \/ \E d \in DocIds : TaskAttach(d)

\* One run of the process.
Spec == Init /\ [][Next]_vars

NextRestart == Next \/ Restart

\* The process over its restarts.
SpecRestart == Init /\ [][NextRestart]_vars

\* ------------------------------------------------- ingestion left alone
\* One run in which extract_text and create_vector_store never raise and
\* nothing is deleted.
NextLive ==
    \/ \E files \in UploadRequests : upload_pdf(files)
    \/ list_documents
    \/ \E ids \in Requests, q \in Questions : QueryStart(ids, q)
    \/ \E a \in Answers : QueryFinish(a)
    \/ QueryUpstreamError
    \/ \E d \in DocIds : TaskStart(d)
    \/ \E d \in DocIds : TaskExtract(d)
    \/ \E d \in DocIds : TaskCreate(d)
    \/ \E d \in DocIds : TaskAttach(d)

\* The blocking completion call returns or raises.  The event loop takes
\* its ready callbacks in arrival order, so a queued task is started even
\* if the loop is busy with a query again and again (strong fairness); the
\* worker thread, once started, runs process_pdf to its end.
Fairness ==
    /\ WF_vars((\E a \in Answers : QueryFinish(a)) \/ QueryUpstreamError)
    /\ \A d \in DocIds :
          /\ SF_vars(TaskStart(d))
          /\ WF_vars(TaskExtract(d))
          /\ WF_vars(TaskCreate(d))
          /\ WF_vars(TaskAttach(d))

SpecLive == Init /\ [][NextLive]_vars /\ Fairness

\* ------------------------------------------------ sessions over a library
\* The process after MaxSessionDocs documents have been uploaded one by one
\* and ingested: every document is registered, stored, persisted and
\* resident, no session has been opened yet.
SessionDocs == 1..MaxSessionDocs

InitIngested ==
    /\ nextId = MaxSessionDocs + 1
    /\ pdf_metadata = SessionDocs
    /\ uploads \in [SessionDocs -> 1..MaxPages]
    /\ embeddings = [d \in SessionDocs |-> Chunks(d, uploads[d])]
    /\ documents = [d \in SessionDocs |-> Entry(Ref("built", NoKey, d))]
    /\ heap = [r \in {Ref("built", NoKey, d) : d \in SessionDocs} |->
                 Chunks(r.doc, uploads[r.doc])]
    /\ merged_vector_stores = <<>>
    /\ multi_chat_histories = <<>>
    /\ tasks = [d \in SessionDocs |-> [NewTask(d, d) EXCEPT !.pc = "done"]]
    /\ query = Idle
    /\ resp = [op |-> "upload", status |-> 200, ids |-> {MaxSessionDocs}]
    /\ deleted = {}
    /\ turns = <<>>

SessionRequests == SeqsUpTo(SessionDocs, MaxReqLen)

\* Queries only.
NextSessions ==
    \/ \E ids \in SessionRequests, q \in Questions : QueryStart(ids, q)
    \/ \E a \in Answers : QueryFinish(a)
    \/ QueryUpstreamError

SpecSessions == InitIngested /\ [][NextSessions]_vars

\* ================================================================ claims
\* A step in which query_document handles a request up to the completion
\* call or to the exception that ends it; the request is query'.ids.
Resolved ==
    /\ query.pc # "invoking"
    /\ query'.pc \in {"invoking", "failed"}
    /\ query' # query

\* A step in which the completion call returns and the handler finishes.
Answered == query.pc = "invoking" /\ query'.pc = "done"

Asked == set(query'.ids)

HasIndexOnDisk(d) == d \in DOMAIN embeddings

\* C1 (as claimed): once delete(d) has returned, every query naming only d
\* is answered 404.
C1_QueryAfterDeleteNotFound ==
    [][(Resolved /\ Cardinality(Asked) = 1 /\ Asked \subseteq deleted)
          => query'.status = 404]_vars

\* C2: two requests whose id lists denote the same set get the same session
\* key, whatever the order and the duplicates: the key the handler uses for
\* (ids, q) is the key of every set-equal request, the merged index it is
\* served from is the cache entry under that key, the history it passes is
\* the history entry under that key, and the turn is written back there.
C2_SetEqualSameKey ==
    [][/\ Resolved =>
            \A other \in Requests :
               set(other) = Asked =>
                  /\ query'.key = SessionKey(other)
                  /\ query'.pc = "invoking" =>
                       /\ query'.chat_history =
                             HistoryOf(multi_chat_histories, SessionKey(other))
                       /\ Cardinality(Asked) >= 2 =>
                            /\ SessionKey(other) \in DOMAIN merged_vector_stores'
                            /\ merged_vector_stores'[SessionKey(other)] = query'.vs
       /\ Answered =>
            \A other \in Requests :
               set(other) = set(query.ids) =>
                  /\ SessionKey(other) \in DOMAIN multi_chat_histories'
                  /\ Len(multi_chat_histories'[SessionKey(other)]) =
                        Len(query.chat_history) + 1
                  /\ SubSeq(multi_chat_histories'[SessionKey(other)], 1,
                            Len(query.chat_history)) = query.chat_history
      ]_vars

\* C2 witness: a request that lists a two-document set out of order is being
\* answered from the cached session a previous request created, with that
\* request's turn as its history.
C2_Witness ==
    /\ query.pc = "invoking"
    /\ query.ids # query.key
    /\ Len(query.key) >= 2
    /\ Len(query.chat_history) >= 1
    /\ query.key \in DOMAIN merged_vector_stores

\* C3 (as claimed): a request for two or more documents, one of which has no
\* persisted index when the request is handled, is answered 404, cached
\* session or not.
C3_MissingMemberNotFound ==
    [][(Resolved /\ Cardinality(Asked) >= 2
          /\ \E d \in Asked : ~HasIndexOnDisk(d))
          => query'.status = 404]_vars

\* C4: a document's own index, in memory and on disk, holds exactly the
\* chunks of that document's text, in text order: no query ever adds
\* another document's chunks to it.
OwnChunks(d, content) ==
    /\ \E n \in 1..MaxPages : content = Chunks(d, n)
    /\ d \in DOMAIN uploads => content = Chunks(d, uploads[d])

C4_OwnIndexUntouched ==
    /\ \A d \in DOMAIN documents :
          OwnChunks(d, heap[documents[d].vector_store])
    /\ \A d \in DOMAIN embeddings : OwnChunks(d, embeddings[d])

\* C4 witness: a merged session is cached for a set containing a document
\* that is resident in memory and persisted.
C4_Witness ==
    \E key \in DOMAIN merged_vector_stores :
       \E d \in Range(key) :
          /\ d \in DOMAIN documents
          /\ d \in DOMAIN embeddings
          /\ Len(heap[merged_vector_stores[key]]) >
                Len(heap[documents[d].vector_store])

\* C5: a request whose ids denote one document d is served from d's own
\* index, the resident one if there is one and else the one loaded from
\* disk; it leaves the merged-index cache as it was, and no cache entry is
\* ever stored under a one-document key.
C5_SingleBypassesCache ==
    [][(Resolved /\ Cardinality(Asked) = 1) =>
             LET d == CHOOSE x \in Asked : TRUE
             IN /\ merged_vector_stores' = merged_vector_stores
                /\ \A k \in DOMAIN merged_vector_stores' : Len(k) # 1
                /\ query'.pc = "invoking" =>
                     /\ d \in DOMAIN documents'
                     /\ query'.vs = documents'[d].vector_store
                     /\ query'.vs.kind # "fresh"
                     /\ heap'[query'.vs] =
                           IF d \in DOMAIN documents
                           THEN heap[documents[d].vector_store]
                           ELSE embeddings[d]
                /\ query'.pc = "failed" =>
                     /\ d \notin DOMAIN documents
                     /\ ~HasIndexOnDisk(d)
                     /\ query'.status = 404
      ]_vars

\* C5 witness: a one-document request is being answered while a merged
\* session containing that document is cached.
C5_Witness ==
    /\ query.pc = "invoking"
    /\ Len(query.key) = 1
    /\ \E k \in DOMAIN merged_vector_stores : query.key[1] \in Range(k)

Pending(d) == d \in pdf_metadata /\ Pc(d) # "done"

\* C7 (as claimed): a query naming a pending document fails, wherever the
\* ingestion task stands.
C7_PendingQueryFails ==
    [][(Resolved /\ \E d \in Asked : Pending(d))
          => query'.pc = "failed"]_vars

\* C7 (amended): a query naming a pending document for which embeddings/<id>
\* does not exist yet (the ingestion task has not saved the index) fails,
\* with 404 when it names that document alone.
C7_UnsavedPendingQueryFails ==
    [][(Resolved /\ \E d \in Asked : Pending(d) /\ ~HasIndexOnDisk(d))
          => /\ query'.pc = "failed"
             /\ Cardinality(Asked) = 1 => query'.status = 404]_vars

\* C7 witness: a query was refused while the ingestion task of the document
\* it names was running.
C7_Witness ==
    /\ query.pc = "failed"
    /\ query.status = 404
    /\ \E d \in set(query.ids) :
          Pending(d) /\ Pc(d) \in {"running", "extracted"}

\* C8 (as claimed): when the ingestion task reaches the steps that save and
\* attach the index and the id is not registered, the id gains no index, on
\* disk or in memory.
C8_AttachNeedsRegistration ==
    [][\A d \in DocIds :
          ((TaskCreate(d) \/ TaskAttach(d)) /\ d \notin pdf_metadata)
          => UNCHANGED <<embeddings, documents>>]_vars

\* C9: within one run of the process a cache entry, once stored, stays
\* under its key with the same object and the same content, whatever is
\* deleted or ingested later, and every later request for that key with two
\* or more documents is served from it.
C9_CacheEntryStays ==
    [][\A k \in DOMAIN merged_vector_stores :
          /\ k \in DOMAIN merged_vector_stores'
          /\ merged_vector_stores'[k] = merged_vector_stores[k]
          /\ heap'[merged_vector_stores'[k]] = heap[merged_vector_stores[k]]
          /\ (Resolved /\ SessionKey(query'.ids) = k)
                => /\ query'.pc = "invoking"
                   /\ query'.vs = merged_vector_stores[k]
      ]_vars

\* C9 witness: a request is being served from a cached session one of
\* whose members has been deleted and has no index on disk.
C9_Witness ==
    /\ query.pc = "invoking"
    /\ query.key \in DOMAIN merged_vector_stores
    /\ query.vs = merged_vector_stores[query.key]
    /\ \E d \in Range(query.key) : d \in deleted /\ ~HasIndexOnDisk(d)

\* The requests other than the one that waits.
OtherHandlers ==
    \/ list_documents
    \/ \E d \in DocIds : delete_document(d)
    \/ \E files \in UploadRequests : upload_pdf(files)
    \/ \E ids \in Requests, q \in Questions : QueryStart(ids, q)

\* C10 (as claimed): while a query waits for the completion model, another
\* request can be handled.
C10_OthersProceedDuringCompletion ==
    query.pc = "invoking" => ENABLED OtherHandlers

\* The ids an upload request was answered with (status 200) in this step.
Acknowledged ==
    IF nextId' > nextId /\ resp'.op = "upload" /\ resp'.status = 200
    THEN resp'.ids ELSE {}

\* C11: when POST /upload/ answers with a document's id, the document is
\* registered and its file stored, its ingestion task is queued and has
\* taken no step, and the id has no index in memory or on disk; every step
\* of the task (start, extraction, index build, attach) is a later step,
\* taken for an id that was handed out before.
C11_AckBeforeProcessing ==
    [][/\ \A d \in Acknowledged :
             /\ d \in pdf_metadata'
             /\ d \in DOMAIN uploads'
             /\ Pc(d) = "none"
             /\ Pc(d)' = "queued"
             /\ d \notin DOMAIN documents'
             /\ d \notin DOMAIN embeddings'
       /\ \A d \in DocIds :
             (Pc(d)' \notin {Pc(d), "queued"}
                 \/ (d \in DOMAIN documents' /\ d \notin DOMAIN documents))
             => /\ d < nextId
                /\ d \notin Acknowledged
                /\ Pc(d) # "none"
      ]_vars

\* C11 witness: the last response is the acknowledgment of a two-file
\* upload; the first document's index has been attached since, the second
\* document's task is still queued.
C11_Witness ==
    /\ resp.op = "upload"
    /\ resp.status = 200
    /\ \E d \in resp.ids : Pc(d) = "done" /\ d \in DOMAIN documents
    /\ \E d \in resp.ids : Pc(d) = "queued" /\ Pending(d)

\* The order of the steps of process_pdf: a task only moves forward.
Forward ==
    {<<"queued", "running">>, <<"running", "extracted">>,
     <<"running", "failed">>, <<"extracted", "saved">>,
     <<"extracted", "failed">>, <<"saved", "done">>}

\* C12: once extract_text or create_vector_store has raised in the
\* ingestion task of a document, the task stays failed and the document
\* has no entry in `documents` and no index on disk in every later state
\* of the run; no task ever goes back to a step it has passed, so each
\* uploaded document is processed at most once.
C12_FailedStaysPending ==
    [][\A d \in DocIds :
          /\ Pc(d) = "failed" =>
                /\ Pc(d)' = "failed"
                /\ d \notin DOMAIN documents'
                /\ d \notin DOMAIN embeddings'
          /\ (Pc(d) # "none" /\ Pc(d)' # Pc(d)) => <<Pc(d), Pc(d)'>> \in Forward
      ]_vars

\* C12 witness: a document whose ingestion failed is still registered, and
\* a query for it has been refused after the failure.
C12_Witness ==
    \E d \in pdf_metadata :
       /\ Pc(d) = "failed"
       /\ query.pc = "failed"
       /\ query.status = 404
       /\ set(query.ids) = {d}

\* C13: load_vector_store(d), as the one-document branch of a query calls
\* it, over the restarts of the process.  If d is resident the resident
\* object is returned and `documents` stays as it was.  If d is not resident
\* and embeddings/<d> exists, a new object holding the persisted chunks is
\* returned and stored under d, the other entries staying as they were, so
\* that the next call returns that same object without a load.  The answer
\* is 404 exactly when d is neither resident nor on disk, and then
\* `documents` stays as it was.
C13_GetIsMemoizingLoad ==
    [][(Resolved /\ Cardinality(Asked) = 1) =>
          LET d == CHOOSE x \in Asked : TRUE
              resident == d \in DOMAIN documents
          IN /\ query'.status = 404 <=> (~resident /\ ~HasIndexOnDisk(d))
             /\ query'.pc = "failed" <=> query'.status = 404
             /\ resident =>
                   /\ query'.vs = documents[d].vector_store
                   /\ heap'[query'.vs] = heap[query'.vs]
                   /\ documents' = documents
             /\ (~resident /\ HasIndexOnDisk(d)) =>
                   /\ query'.vs \notin DOMAIN heap
                   /\ heap'[query'.vs] = embeddings[d]
                   /\ documents' = Put(documents, d, Entry(query'.vs))
                   /\ load_vector_store(documents', heap', d).vs = query'.vs
                   /\ load_vector_store(documents', heap', d).documents
                         = documents'
             /\ query'.status = 404 => documents' = documents
      ]_vars

\* C13 witness: after a restart (no task is known for the document) a
\* one-document query is being answered from the index loaded from disk,
\* which is now resident.
C13_Witness ==
    /\ query.pc = "invoking"
    /\ Len(query.key) = 1
    /\ Pc(query.key[1]) = "none"
    /\ query.vs.kind = "loaded"
    /\ query.key[1] \in DOMAIN documents
    /\ documents[query.key[1]].vector_store = query.vs
    /\ heap[query.vs] = embeddings[query.key[1]]

\* Nothing of d is stored: no row, no upload directory, no persisted index.
Absent(d) ==
    /\ d \notin pdf_metadata
    /\ d \notin DOMAIN uploads
    /\ d \notin DOMAIN embeddings

RECURSIVE PersistedAscending(_)
PersistedAscending(S) ==
    IF S = {} THEN <<>>
    ELSE embeddings[Min(S)] \o PersistedAscending(S \ {Min(S)})

\* C15: when a request for two or more documents finds no cache entry
\* under its key and is served, the index stored under the key and served
\* holds the persisted chunks of each member once, the members in
\* ascending order of id, whatever the order and the duplicates of the ids
\* in the request.
C15_MergedIsMembersAscending ==
    [][(/\ Resolved
        /\ Cardinality(Asked) >= 2
        /\ SessionKey(query'.ids) \notin DOMAIN merged_vector_stores
        /\ query'.pc = "invoking")
          => /\ SessionKey(query'.ids) \in DOMAIN merged_vector_stores'
             /\ merged_vector_stores'[SessionKey(query'.ids)] = query'.vs
             /\ heap'[query'.vs] = PersistedAscending(Asked)
      ]_vars

\* C15 witness: a request that lists its documents in descending order is
\* being served from the index merged for it, which holds both members'
\* chunks, the lower id's first.
C15_Witness ==
    /\ query.pc = "invoking"
    /\ Len(query.ids) = 2
    /\ query.ids[1] > query.ids[2]
    /\ query.chat_history = <<>>
    /\ query.vs.kind = "fresh"
    /\ heap[query.vs] = embeddings[query.ids[2]] \o embeddings[query.ids[1]]
    /\ Len(heap[query.vs]) = 2

\* C16 (as claimed): an upload request that is answered 400 because one of
\* its files is not a .pdf registers no document, stores no file and
\* leaves no task, the .pdf files before the refused one included.
C16_RejectedUploadChangesNothing ==
    [][\A files \in UploadRequests :
          (upload_pdf(files) /\ resp'.status = 400)
             => UNCHANGED <<nextId, pdf_metadata, uploads, tasks>>]_vars

\* C17 (as claimed): with no failure of extraction or embedding, no delete
\* and fair scheduling of the tasks, a document that GET /documents/ lists
\* is eventually ready: its index is attached in `documents`.
C17_ListedEventuallyReady ==
    \A d \in DocIds :
       (resp.op = "list" /\ d \in resp.ids) ~> (d \in DOMAIN documents)

\* C18: a query that fails records nothing.  When the handler ends on an
\* exception before the completion call (404 for a one-document request
\* without an index, 500 for an empty id list or a member whose index
\* cannot be loaded), no history changes and no entry is stored in the
\* merged-index cache; when the completion call raises, no history changes.
C18_FailedQueryRecordsNothing ==
    [][/\ (Resolved /\ query'.pc = "failed") =>
             /\ multi_chat_histories' = multi_chat_histories
             /\ merged_vector_stores' = merged_vector_stores
       /\ (query.pc = "invoking" /\ query'.pc = "failed") =>
             /\ query'.status = 500
             /\ multi_chat_histories' = multi_chat_histories
      ]_vars

\* C18 witness: a request for a session that has one turn ended with
\* status 500 (a member's index could not be loaded, or the completion
\* call raised), and the session's history is still that one turn.
C18_Witness ==
    /\ query.pc = "failed"
    /\ query.status = 500
    /\ query.key \in DOMAIN multi_chat_histories
    /\ multi_chat_histories[query.key] = turns[query.key]
    /\ Len(multi_chat_histories[query.key]) = 1

\* C19: a query that is answered changes one history and at most one
\* cache entry.  Up to the completion call it leaves every history as it
\* was and every cache entry under another key in place, the same object
\* with the same chunks.  When the completion call returns, the history
\* under the request's key is what it was plus the one turn <<question,
\* answer>>, every other key's history (subsets and supersets included)
\* is as it was, and the cache and the cached objects are as they were.
C19_SuccessfulQueryFrame ==
    [][/\ (Resolved /\ query'.pc = "invoking") =>
             /\ multi_chat_histories' = multi_chat_histories
             /\ \A k \in (DOMAIN merged_vector_stores
                            \cup DOMAIN merged_vector_stores') \ {query'.key} :
                   /\ k \in DOMAIN merged_vector_stores
                   /\ k \in DOMAIN merged_vector_stores'
                   /\ merged_vector_stores'[k] = merged_vector_stores[k]
                   /\ heap'[merged_vector_stores'[k]] =
                         heap[merged_vector_stores[k]]
       /\ Answered =>
             /\ \E a \in Answers :
                   multi_chat_histories' =
                      Put(multi_chat_histories, query.key,
                          Append(HistoryOf(multi_chat_histories, query.key),
                                 <<query.question, a>>))
             /\ merged_vector_stores' = merged_vector_stores
             /\ \A k \in DOMAIN merged_vector_stores :
                   heap'[merged_vector_stores[k]] = heap[merged_vector_stores[k]]
      ]_vars

\* C19 witness: a query for a two-document session has been answered
\* while another session is cached and a session on a subset of its
\* documents has a history of its own.
C19_Witness ==
    /\ query.pc = "done"
    /\ Len(query.key) = 2
    /\ query.key \in DOMAIN multi_chat_histories
    /\ \E k \in DOMAIN merged_vector_stores : k # query.key
    /\ \E k \in DOMAIN multi_chat_histories :
          /\ k # query.key
          /\ Range(k) \subseteq Range(query.key)
          /\ multi_chat_histories[k] # multi_chat_histories[query.key]

====
